---- MODULE Spec2Model ----
(***************************************************************************)
(* A model of the random-access index engine and the lookup paths of       *)
(* mzmlpy (src/src/mzmlpy/file_classes/standardMzml.py, standardGzip.py,   *)
(* file_interface.py).                                                     *)
(*                                                                         *)
(* A file is a sequence of cells.  A cell stands for one lexical unit of   *)
(* the bytes the code's regular expressions look at, and file offsets are  *)
(* counted in cells from 0.  The kinds of cell:                            *)
(*   open   "<spectrum" / "<chromatogram"  (t = element type, n = the      *)
(*          element's ordinal in the document, which stands for the        *)
(*          element's own content and tells two elements apart)            *)
(*   pad    attribute bytes without ">" and without id="                   *)
(*   id     id="..."  (id = the identifier, a tuple of characters)         *)
(*   gt     ">" ending a start tag                                         *)
(*   data   character data without "<", ">" or a space                     *)
(*   close  "</spectrum>" / "</chromatogram>"                              *)
(*   text   any other markup (it holds "<" and ">")                        *)
(*   indexList, index (t = name), offset (id = idRef, n = value),          *)
(*   endIndexList, nl (line feed), indexListOffset (n = value)             *)
(* The code's byte counts (chunk sizes, look-back) are scaled down to      *)
(* cell counts; see the constants below.                                   *)
(***************************************************************************)
EXTENDS Integers, Sequences, FiniteSets, TLC

\* ---------------------------------------------------------------- bounds
MaxElems == 2          \* spectrum/chromatogram elements per document
MaxIter == 3           \* iterations of the extractor's loop that are followed
MaxParams == 2         \* cvParam children of a binary data array
MaxBytes == 1          \* bytes the base64 text of a <binary> child decodes to
MaxHeader == 3         \* child elements of the mzML element of a header document
MaxCalls == 2          \* next() calls followed on one lookup object

\* ------------------------------------------------- program constants (scaled)
chunksize == 4         \* get_data_indices(chunksize=8192)
lookback_size == 1     \* get_data_indices(lookback_size=100)
chunk_size == 4        \* _read_to_spec_end: 512 * chunks_to_read
max_search_len == 2    \* _read_until_tag_end(max_search_len=12)
footer_len == 4        \* _find_index_offset: the last 10240 bytes

Types == {"spectrum", "chromatogram"}
Ids == { <<"1">>, <<"s", "=", "1">> }
Pads == {0, 1}

Cell(k, t, id, n) == [k |-> k, t |-> t, id |-> id, n |-> n]

\* ------------------------------------------------------------- sequences
Min(a, b) == IF a < b THEN a ELSE b
Max(a, b) == IF a > b THEN a ELSE b

\* s[a..b) with 0-based offsets, clipped to the sequence (a Python slice)
Slice(s, a, b) ==
  LET lo == Max(a, 0)
      hi == Min(b, Len(s))
  IN  IF hi <= lo THEN <<>> ELSE [i \in 1..(hi - lo) |-> s[lo + i]]

\* s[-n:]
LastN(s, n) == Slice(s, Len(s) - n, Len(s))

RECURSIVE Flatten(_)
Flatten(ss) == IF ss = <<>> THEN <<>> ELSE Head(ss) \o Flatten(Tail(ss))

\* ------------------------------------------------------ ordered dictionary
\* An OrderedDict is a sequence of [key, off] with distinct keys, in
\* insertion order.
Keys(d) == [i \in 1..Len(d) |-> d[i].key]
Values(d) == [i \in 1..Len(d) |-> d[i].off]
Has(d, k) == \E i \in 1..Len(d) : d[i].key = k
Get(d, k) == d[CHOOSE i \in 1..Len(d) : d[i].key = k].off
Put(d, k, v) ==
  IF Has(d, k)
  THEN [i \in 1..Len(d) |-> IF d[i].key = k THEN [key |-> k, off |-> v] ELSE d[i]]
  ELSE Append(d, [key |-> k, off |-> v])

RECURSIVE Update(_, _)
Update(d, e) == IF e = <<>> THEN d ELSE Update(Put(d, Head(e).key, Head(e).off), Tail(e))

ToSet(s) == {s[i] : i \in 1..Len(s)}

\* -------------------------------------------------------------- documents
ElemShapes == [t : Types, id : Ids, pad : Pads]

PadCells(n) == [i \in 1..n |-> Cell("pad", "", <<>>, 0)]

\* One element: start tag, content, close tag (none when the file is cut there).
ElemCells(e, n, closed) ==
  <<Cell("open", e.t, <<>>, n)>> \o PadCells(e.pad)
    \o <<Cell("id", "", e.id, 0), Cell("gt", "", <<>>, 0), Cell("data", "", <<>>, 0)>>
    \o (IF closed THEN <<Cell("close", e.t, <<>>, 0)>> ELSE <<>>)

\* The document part of a file: a prolog, the elements, and the epilog unless
\* the file is truncated inside its last element.
BodyCells(elems, truncated) ==
  <<Cell("text", "", <<>>, 0)>>
    \o Flatten([i \in 1..Len(elems) |->
                  ElemCells(elems[i], i - 1, ~(truncated /\ i = Len(elems)))])
    \o (IF truncated THEN <<>> ELSE <<Cell("text", "", <<>>, 0)>>)

\* Offsets (0-based) of the element starts of a cell sequence.
StartOffsets(f) == {i - 1 : i \in {j \in 1..Len(f) : f[j].k = "open"}}

\* The index entries a correct writer emits for a document.
RECURSIVE CorrectEntriesFrom(_, _, _)
CorrectEntriesFrom(elems, i, pos) ==
  IF i > Len(elems) THEN <<>>
  ELSE <<[sec |-> elems[i].t, idRef |-> elems[i].id, off |-> pos]>>
         \o CorrectEntriesFrom(elems, i + 1, pos + elems[i].pad + 5)

CorrectEntries(elems) == CorrectEntriesFrom(elems, 1, 1)

\* The cells of an <indexList>: a section header whenever the section changes.
RECURSIVE IndexItems(_, _)
IndexItems(entries, prev) ==
  IF entries = <<>> THEN <<>>
  ELSE LET e == Head(entries)
       IN  (IF e.sec # prev THEN <<Cell("index", e.sec, <<>>, 0)>> ELSE <<>>)
             \o <<Cell("offset", "", e.idRef, e.off)>>
             \o IndexItems(Tail(entries), e.sec)

NL == Cell("nl", "", <<>>, 0)

RECURSIVE OnLines(_)
OnLines(items) == IF items = <<>> THEN <<>> ELSE <<Head(items), NL>> \o OnLines(Tail(items))

\* layout "lines": one item per line; "oneline": the whole list on one line.
IndexCells(entries, layout, at) ==
  LET items == <<Cell("indexList", "", <<>>, 0)>> \o IndexItems(entries, "")
                 \o <<Cell("endIndexList", "", <<>>, 0)>>
  IN  (IF layout = "lines" THEN OnLines(items) ELSE items \o <<NL>>)
        \o <<Cell("indexListOffset", "", <<>>, at)>>

\* The value of an <indexListOffset> element without digits.
NoDigits == 0 - 1

\* The offsets an index entry may name: the element starts, and 0 (no start).
EntryOffsets(elems) == {0} \cup {CorrectEntries(elems)[i].off : i \in 1..Len(elems)}

\* The embedded indexes considered for a document: the correct one, every one
\* that differs from it in one field of one entry, and every one with one
\* more entry, for an element start, at its end.
IndexVariants(elems) ==
  LET c == CorrectEntries(elems)
  IN  {c}
        \cup {[c EXCEPT ![i].sec = x] : i \in 1..Len(c), x \in Types}
        \cup {[c EXCEPT ![i].idRef = x] : i \in 1..Len(c), x \in Ids}
        \cup {[c EXCEPT ![i].off = x] : i \in 1..Len(c), x \in EntryOffsets(elems)}
        \cup {Append(c, e) : e \in [sec : Types, idRef : Ids, off : EntryOffsets(elems) \ {0}]}

Docs == UNION {[1..n -> ElemShapes] : n \in 0..MaxElems}

Files ==
  {BodyCells(d, FALSE) : d \in Docs}
    \cup {BodyCells(d, TRUE) : d \in Docs \ {<<>>}}
    \cup UNION {{BodyCells(d, FALSE) \o IndexCells(x, "lines", Len(BodyCells(d, FALSE))) :
                   x \in IndexVariants(d)} : d \in Docs}
    \cup {BodyCells(d, FALSE) \o IndexCells(CorrectEntries(d), "oneline", Len(BodyCells(d, FALSE))) :
            d \in Docs}
    \cup {BodyCells(d, FALSE) \o IndexCells(CorrectEntries(d), "lines", NoDigits) : d \in Docs}

\* ------------------------------------------------------------------ state
VARIABLES
  file,                  \* the bytes of the opened file, as cells
  pc,                    \* "new", "ready" (constructed), "failed" (constructor raised),
                         \* "extract" (inside _read_to_spec_end)
  spectrum_offsets,      \* OrderedDict[str, int]
  chromatogram_offsets,  \* OrderedDict[str, int]
  _spectrum_keys,        \* list[str]
  _chromatogram_keys,    \* list[str]
  path,                  \* the index path construction took
  req,                   \* the lookup last asked for
  res,                   \* its outcome on the random-access reader (plain) and on
                         \* the gzip streaming reader (gzip) of the same document
  seeker,                \* the lookup's binary cursor: "none", "open", "closed"
  ext,                   \* locals of the running _read_to_spec_end
  file_handler,          \* self.file_handler, the text view: open or not, position
  temp_file,             \* FileInterface.temp_file: made or None, open, on disk
  mzml_interface,        \* the class of FileInterface.file_handler
  array,                 \* a BinaryDataArray: its cvParams and its <binary> child
  decoded,               \* what BinaryDataArray.data made of it
  header,                \* Mzml's header parse: the parser events, the events
                         \* consumed, the MzMLContentBuilder's fields
  file_object,           \* FileInterface: the argument of _open, extract_gzip, in_memory
  declared,              \* the count attributes of spectrumList and chromatogramList
  stdout                 \* what construction printed

vars == <<file, pc, spectrum_offsets, chromatogram_offsets, _spectrum_keys,
          _chromatogram_keys, path, req, res, seeker, ext, file_handler,
          temp_file, mzml_interface, array, decoded, header, file_object,
          declared, stdout>>

NoReq == [op |-> "none", t |-> "", int |-> FALSE, n |-> 0, s |-> <<>>]
NoRes == [kind |-> "none", tag |-> "", id |-> <<>>, n |-> 0, as |-> "", items |-> <<>>]
NoExt == [t |-> "", offset |-> 0, pos |-> 0, iter |-> 0]
NoTemp == [made |-> FALSE, open |-> FALSE, on_disk |-> FALSE]
NoArray == [cv_params |-> <<>>, binary |-> FALSE, text |-> FALSE, nbytes |-> 0]
NoDecoded == [kind |-> "none", steps |-> <<>>, warnings |-> {}]
NoInterface == [path_or_file |-> "none", extract_gzip |-> FALSE, in_memory |-> FALSE]
NoDeclared == [speccnt |-> 0, chromcnt |-> 0]
NoHeader == [state |-> "none", events |-> <<>>, pos |-> 0, _id |-> "", _version |-> "",
             _cv_list |-> <<>>, _file_description |-> "None", _software_list |-> <<>>,
             _run |-> "None", handled |-> <<>>]

Init ==
  /\ file \in Files
  /\ pc = "new"
  /\ spectrum_offsets = <<>>
  /\ chromatogram_offsets = <<>>
  /\ _spectrum_keys = <<>>
  /\ _chromatogram_keys = <<>>
  /\ path = "none"
  /\ req = NoReq
  /\ res = [plain |-> NoRes, gzip |-> NoRes]
  /\ seeker = "none"
  /\ ext = NoExt
  /\ file_handler = [open |-> FALSE, pos |-> 0]
  /\ temp_file = NoTemp
  /\ mzml_interface = "none"
  /\ array = NoArray
  /\ decoded = NoDecoded
  /\ header = NoHeader
  /\ file_object = NoInterface
  /\ declared = NoDeclared
  /\ stdout = {}

\* ------------------------------------------------- get_data_indices (scan)
\* Cells over which [^>]* can run: they hold no ">".
NoGt(c) == c.k \in {"pad", "id", "open", "data", "nl"}

\* The end (1-based index of the id cell) of the greedy match of
\* <\s*TYPE[^>]*id="([^"]*)" that starts at cell i of chunk, or 0.
MatchEnd(chunk, i) ==
  LET ends == {j \in (i + 1)..Len(chunk) :
                 /\ chunk[j].k = "id"
                 /\ \A m \in (i + 1)..(j - 1) : NoGt(chunk[m])}
  IN  IF ends = {} THEN 0 ELSE CHOOSE j \in ends : \A x \in ends : x <= j

\* re.finditer(exp, chunk) for the element-start pattern of type t, folded
\* into positions[key] = offset + m.start().
RECURSIVE FindAll(_, _, _, _, _)
FindAll(chunk, t, i, offset, positions) ==
  IF i > Len(chunk) THEN positions
  ELSE IF chunk[i].k = "open" /\ chunk[i].t = t /\ MatchEnd(chunk, i) # 0
       THEN LET j == MatchEnd(chunk, i)
            IN  FindAll(chunk, t, j + 1, offset, Put(positions, chunk[j].id, offset + (i - 1)))
       ELSE FindAll(chunk, t, i + 1, offset, positions)

\* The while loop of get_data_indices: tell is fh.tell(), prev is prev_chunk.
RECURSIVE ScanLoop(_, _, _, _)
ScanLoop(f, tell, prev, acc) ==
  LET read == Slice(f, tell, tell + chunksize)
  IN  IF read = <<>> THEN acc
      ELSE LET chunk == IF Len(prev) > 0 THEN LastN(prev, lookback_size) \o read ELSE read
               offset == IF Len(prev) > 0 THEN tell - lookback_size ELSE tell
           IN  ScanLoop(f, tell + Len(read), chunk,
                        [chrom |-> FindAll(chunk, "chromatogram", 1, offset, acc.chrom),
                         spec |-> FindAll(chunk, "spectrum", 1, offset, acc.spec)])

get_data_indices(f) == ScanLoop(f, 0, <<>>, [chrom |-> <<>>, spec |-> <<>>])

\* _build_index_from_scratch: the scan's positions are merged into the tables
\* as they stand, and the key lists are rebuilt.
BuildIndexFromScratch(f, tables) ==
  LET found == get_data_indices(f)
      c == Update(tables.chrom, found.chrom)
      s == Update(tables.spec, found.spec)
  IN  [spec |-> s, chrom |-> c, skeys |-> Keys(s), ckeys |-> Keys(c)]

\* ------------------------------------------------------- the embedded index
\* _find_index_offset: the value of the first <indexListOffset> in the last
\* footer_len cells; 0 for None; NoDigits where int("") raises ValueError.
FindIndexOffset(f) ==
  LET search_start == Max(0, Len(f) - footer_len)
      hits == {i \in (search_start + 1)..Len(f) : f[i].k = "indexListOffset"}
  IN  IF hits = {} THEN 0
      ELSE f[CHOOSE i \in hits : \A x \in hits : i <= x].n

\* The first cell of kind k in a line, or a cell of kind "none".
First(line, k) ==
  LET hits == {i \in 1..Len(line) : line[i].k = k}
  IN  IF hits = {} THEN Cell("none", "", <<>>, 0)
      ELSE line[CHOOSE i \in hits : \A x \in hits : i <= x]

\* The line that starts at offset pos: up to and including the next line feed.
LineAt(f, pos) ==
  LET nls == {i \in (pos + 1)..Len(f) : f[i].k = "nl"}
      stop == IF nls = {} THEN Len(f) ELSE CHOOSE i \in nls : \A x \in nls : i <= x
  IN  Slice(f, pos, stop)

\* _add_offset_entry: ok = FALSE stands for the ValueError of a repeated id.
AddOffsetEntry(st, index_type, native_id, offset) ==
  IF index_type = "spectrum"
  THEN IF Has(st.spec, native_id) THEN [st EXCEPT !.ok = FALSE]
       ELSE [st EXCEPT !.spec = Put(st.spec, native_id, offset)]
  ELSE IF index_type = "chromatogram"
  THEN IF Has(st.chrom, native_id) THEN [st EXCEPT !.ok = FALSE]
       ELSE [st EXCEPT !.chrom = Put(st.chrom, native_id, offset)]
  ELSE st

\* _parse_index_section: the for loop over the lines from index_offset on.
RECURSIVE ParseLines(_, _, _, _)
ParseLines(f, pos, current_index_type, st) ==
  IF pos >= Len(f) \/ ~st.ok THEN st
  ELSE LET line == LineAt(f, pos)
           next == pos + Len(line)
       IN  IF First(line, "endIndexList").k # "none" THEN st
           ELSE IF First(line, "index").k # "none"
           THEN ParseLines(f, next, First(line, "index").t, st)
           ELSE IF First(line, "offset").k # "none" /\ current_index_type # ""
           THEN ParseLines(f, next, current_index_type,
                           AddOffsetEntry(st, current_index_type,
                                          First(line, "offset").id, First(line, "offset").n))
           ELSE ParseLines(f, next, current_index_type, st)

ParseIndexSection(f, index_offset, tables) ==
  ParseLines(f, index_offset, "", [spec |-> tables.spec, chrom |-> tables.chrom, ok |-> TRUE])

Distinct(s) == \A i, j \in 1..Len(s) : i # j => s[i] # s[j]

\* _validate_unique_offsets: TRUE when it raises nothing.
ValidateUniqueOffsets(spec, chrom) ==
  /\ Distinct(Values(spec))
  /\ Distinct(Values(chrom))
  /\ ToSet(Values(spec)) \cap ToSet(Values(chrom)) = {}

\* _build_index: the tables and key lists construction leaves, and the path
\* taken: "scratch" (asked for, or no index offset), "embedded", or "fallback"
\* (the except branch).
BuildIndex(f, from_scratch) ==
  LET empty == [spec |-> <<>>, chrom |-> <<>>]
      index_offset == FindIndexOffset(f)
  IN  IF from_scratch \/ index_offset = 0
      THEN BuildIndexFromScratch(f, empty) @@ [path |-> "scratch"]
      ELSE IF index_offset = NoDigits
      THEN [spec |-> <<>>, chrom |-> <<>>, skeys |-> <<>>, ckeys |-> <<>>, path |-> "raised"]
      ELSE LET st == ParseIndexSection(f, index_offset, empty)
           IN  IF st.ok /\ ValidateUniqueOffsets(st.spec, st.chrom)
               THEN [spec |-> st.spec, chrom |-> st.chrom, skeys |-> Keys(st.spec),
                     ckeys |-> Keys(st.chrom), path |-> "embedded"]
               ELSE BuildIndexFromScratch(f, [spec |-> st.spec, chrom |-> st.chrom])
                      @@ [path |-> "fallback"]

\* The two print calls at the end of get_data_indices: the numbers found by
\* the scan against chromcnt and speccnt, the count attributes it met.
TruncationWarning == "[Warning] Using found offsets but some may be missing. File may be truncated."
CountMismatch(found, counts) ==
  counts.chromcnt # Len(found.chrom) \/ counts.speccnt # Len(found.spec)

\* What _build_index prints: get_data_indices runs on the paths "scratch" and
\* "fallback" only; _parse_index_section and _finalize_index print nothing.
Emitted(f, counts, index_path) ==
  IF index_path \in {"scratch", "fallback"} /\ CountMismatch(get_data_indices(f), counts)
  THEN {TruncationWarning}
  ELSE {}

\* AbstractRandomAccessMzml.__init__
Construct(from_scratch) ==
  /\ pc = "new"
  /\ \E r \in {BuildIndex(file, from_scratch)} :
         /\ spectrum_offsets' = r.spec
         /\ chromatogram_offsets' = r.chrom
         /\ _spectrum_keys' = r.skeys
         /\ _chromatogram_keys' = r.ckeys
         /\ path' = r.path
         /\ pc' = IF r.path = "raised" THEN "failed" ELSE "ready"
         /\ stdout' = Emitted(file, declared, r.path)
  /\ file_handler' = [open |-> TRUE, pos |-> 0]
  /\ UNCHANGED <<temp_file, mzml_interface, array, decoded, header, file_object,
                 declared>>
  /\ UNCHANGED <<file, req, res, seeker, ext>>

\* ------------------------------------------------------------ XML parsing
\* The end events of an XML parse of cells, with what the parser has on its
\* stack.  fragment = TRUE is ElementTree.XML of one extracted slice (nothing
\* but the one root element may occur); FALSE is iterparse of the whole file,
\* whose prolog and epilog cells stand for the enclosing mzML and run tags.
\* ok = FALSE stands for the ParseError raised after the events in items.
RECURSIVE Events(_, _, _, _, _)
Events(cells, i, stack, out, fragment) ==
  IF i > Len(cells) THEN [items |-> out, ok |-> stack = <<>> /\ (fragment => out # <<>>)]
  ELSE LET c == cells[i]
           outside == stack = <<>>
       IN  IF c.k = "nl" THEN Events(cells, i + 1, stack, out, fragment)
           ELSE IF fragment /\ outside /\ out # <<>> THEN [items |-> out, ok |-> FALSE]
           ELSE IF c.k = "open"
           THEN Events(cells, i + 1, <<[tag |-> c.t, id |-> <<>>, n |-> c.n]>> \o stack, out, fragment)
           ELSE IF c.k \in {"id", "pad", "gt", "data", "close"} /\ outside
           THEN [items |-> out, ok |-> FALSE]
           ELSE IF c.k = "id"
           THEN Events(cells, i + 1, <<[Head(stack) EXCEPT !.id = c.id]>> \o Tail(stack), out, fragment)
           ELSE IF c.k = "close"
           THEN IF Head(stack).tag = c.t
                THEN Events(cells, i + 1, Tail(stack), Append(out, Head(stack)), fragment)
                ELSE [items |-> out, ok |-> FALSE]
           ELSE IF fragment /\ outside THEN [items |-> out, ok |-> FALSE]
           ELSE Events(cells, i + 1, stack, out, fragment)

\* iterparse(file, events=("end",)): the elements in the order they end.
IterParse(f) == Events(f, 1, <<>>, <<>>, FALSE)

\* ElementTree.XML(data): the root element, or ok = FALSE for a ParseError.
XML(data) ==
  LET ev == Events(data, 1, <<>>, <<>>, TRUE)
  IN  IF ev.ok THEN [ok |-> TRUE, root |-> ev.items[Len(ev.items)]]
      ELSE [ok |-> FALSE, root |-> [tag |-> "", id |-> <<>>, n |-> 0]]

Elem(e, element_type) ==
  [kind |-> "elem", tag |-> e.tag, id |-> e.id, n |-> e.n, as |-> element_type, items |-> <<>>]
Raised(kind) == [NoRes EXCEPT !.kind = kind]

\* --------------------------------------------------------------- identifiers
Digit(d) ==
  CASE d = 0 -> "0" [] d = 1 -> "1" [] d = 2 -> "2" [] d = 3 -> "3" [] d = 4 -> "4"
    [] d = 5 -> "5" [] d = 6 -> "6" [] d = 7 -> "7" [] d = 8 -> "8" [] d = 9 -> "9"

RECURSIVE DecStr(_)
DecStr(n) == IF n < 10 THEN <<Digit(n)>> ELSE DecStr(n \div 10) \o <<Digit(n % 10)>>

\* str(identifier) of an int
str(n) == IF n < 0 THEN <<"-">> \o DecStr(-n) ELSE DecStr(n)

\* A lookup that passed an integer on as it came, without str().
KeyOf_Unconverted(r) == r.s

\* if isinstance(identifier, int): identifier = str(identifier)
KeyOf(r) == IF r.int THEN str(r.n) ELSE r.s

\* The identifiers and indexes lookups are asked for.
Identifiers ==
  {[op |-> "id", t |-> t, int |-> FALSE, n |-> 0, s |-> s] :
     t \in Types, s \in Ids}
    \cup {[op |-> "id", t |-> t, int |-> TRUE, n |-> 1, s |-> <<>>] : t \in Types}
Indexes ==
  {[op |-> "index", t |-> t, int |-> TRUE, n |-> k, s |-> <<>>] :
     t \in Types, k \in (0 - 1)..MaxElems}

\* ------------------------------------------------ random-access lookups
Table(t) == IF t = "spectrum" THEN spectrum_offsets ELSE chromatogram_offsets
KeyList(t) == IF t = "spectrum" THEN _spectrum_keys ELSE _chromatogram_keys

\* spectrum_count / chromatogram_count: the length of the table, None (here
\* NoCount) for an empty one.
NoCount == 0 - 1
spectrum_count == IF spectrum_offsets # <<>> THEN Len(spectrum_offsets) ELSE NoCount
chromatogram_count == IF chromatogram_offsets # <<>> THEN Len(chromatogram_offsets) ELSE NoCount

\* BaseLookup.__len__ of reader.spectra and reader.chromatograms: the count of
\* the reader, or TypeError when that is None.
__len__(t) ==
  IF (IF t = "spectrum" THEN spectrum_count ELSE chromatogram_count) = NoCount
  THEN [raised |-> "TypeError", n |-> 0]
  ELSE [raised |-> "", n |-> IF t = "spectrum" THEN spectrum_count ELSE chromatogram_count]

\* A lookup r may start on a reader (slot) when no outcome is held, or when
\* the other reader holds the outcome of the same request.
MayStart(r, slot) ==
  /\ pc = "ready"
  /\ \/ req = NoReq
     \/ req = r /\ res[slot].kind = "none"

Keep(r, slot) == IF req = r THEN res[slot] ELSE NoRes

\* get_spectrum_by_id / get_chromatogram_by_id up to the first read of
\* _read_to_spec_end: KeyError, or the cursor is opened, moved to the offset
\* and one chunk is read.
StartById(r, t, key) ==
  IF ~Has(Table(t), key)
  THEN /\ res' = [plain |-> Raised("KeyError"), gzip |-> Keep(r, "gzip")]
       /\ seeker' = "none"
       /\ UNCHANGED <<pc, ext>>
  ELSE LET offset == Get(Table(t), key)
       IN  /\ res' = [plain |-> Raised("running"), gzip |-> Keep(r, "gzip")]
           /\ seeker' = "open"
           /\ ext' = [t |-> t, offset |-> offset,
                      pos |-> Max(offset, Min(Len(file), offset + chunk_size)), iter |-> 0]
           /\ pc' = "extract"

GetById(r) ==
  /\ MayStart(r, "plain")
  /\ r \in Identifiers
  /\ req' = r
  /\ StartById(r, r.t, KeyOf(r))
  /\ UNCHANGED <<temp_file, mzml_interface, array, decoded, header, file_object,
                 declared, stdout>>
  /\ UNCHANGED <<file, spectrum_offsets, chromatogram_offsets, _spectrum_keys,
                 _chromatogram_keys, path, file_handler>>

\* The bounds check of get_spectrum_by_index (a comparison) and of
\* get_chromatogram_by_index (a list subscript, which takes -n..-1 too):
\* the 1-based position in the key list, or 0 for IndexError.
KeyPosition(t, index) ==
  LET n == Len(KeyList(t))
  IN  IF t = "spectrum"
      THEN IF 0 <= index /\ index < n THEN index + 1 ELSE 0
      ELSE IF 0 <= index /\ index < n THEN index + 1
           ELSE IF 0 - n <= index /\ index < 0 THEN n + index + 1 ELSE 0

GetByIndex(r) ==
  /\ MayStart(r, "plain")
  /\ r \in Indexes
  /\ req' = r
  /\ IF KeyPosition(r.t, r.n) = 0
     THEN /\ res' = [plain |-> Raised("IndexError"), gzip |-> Keep(r, "gzip")]
          /\ seeker' = "none"
          /\ UNCHANGED <<pc, ext>>
     ELSE StartById(r, r.t, KeyList(r.t)[KeyPosition(r.t, r.n)])
  /\ UNCHANGED <<temp_file, mzml_interface, array, decoded, header, file_object,
                 declared, stdout>>
  /\ UNCHANGED <<file, spectrum_offsets, chromatogram_offsets, _spectrum_keys,
                 _chromatogram_keys, path, file_handler>>

\* A cell that holds "<", ">" or a space.
IsBoundary(c) == c.k \notin {"data", "nl", "cont"}

\* _read_until_tag_end: the position after reading single bytes until one is
\* a boundary or max_search_len reads are made (a read at end of file
\* returns nothing and moves nothing).
RECURSIVE ReadUntilTagEnd(_, _, _)
ReadUntilTagEnd(f, pos, count) ==
  IF count >= max_search_len THEN pos
  ELSE IF pos >= Len(f) THEN ReadUntilTagEnd(f, pos, count + 1)
  ELSE IF IsBoundary(f[pos + 1]) THEN pos + 1
  ELSE ReadUntilTagEnd(f, pos + 1, count + 1)

\* pattern.search(data).end() for a close tag of type t, or 0.
CloseEnd(data, t) ==
  LET hits == {i \in 1..Len(data) : data[i].k = "close" /\ data[i].t = t}
  IN  IF hits = {} THEN 0 ELSE CHOOSE i \in hits : \A x \in hits : i <= x

\* The match of one pass of the while loop of _read_to_spec_end over
\* data_chunk: </spectrum> first, </chromatogram> if there is none.
MatchEndOf(data) ==
  IF CloseEnd(data, "spectrum") # 0 THEN CloseEnd(data, "spectrum")
  ELSE CloseEnd(data, "chromatogram")

\* TextIOWrapper.read(size) at byte position pos: size characters are read,
\* and the byte position after them is returned; each "cont" cell is a
\* further byte of the character before it and is read with it.
RECURSIVE TextReadEnd(_, _, _)
TextReadEnd(f, pos, size) ==
  IF pos >= Len(f) THEN Len(f)
  ELSE IF f[pos + 1].k = "cont" THEN TextReadEnd(f, pos + 1, size)
  ELSE IF size = 0 THEN pos
  ELSE TextReadEnd(f, pos + 1, size - 1)

\* The rest of get_*_by_id once end_pos is known: the text handle reads
\* end_pos - offset characters from offset and what it read is parsed.
Parsed(t, offset, end_pos) ==
  LET x == XML(Slice(file, offset, TextReadEnd(file, offset, end_pos - offset)))
  IN  IF x.ok THEN Elem(x.root, t)
      ELSE IF t = "spectrum" THEN Raised("ValueError") ELSE Raised("ParseError")

\* self.file_handler.seek(offset, 0): the position the text view is left at.
SeekSet_Stay(pos, offset) == pos
SeekSet(pos, offset) == offset

\* One pass of the while loop of _read_to_spec_end; on a match the lookup
\* runs to its end: the text view is moved to the offset and end_pos - offset
\* of it are read and parsed.
ReadToSpecEndStep ==
  /\ pc = "extract"
  /\ ext.iter < MaxIter
  /\ \E pos2 \in {ReadUntilTagEnd(file, Max(ext.pos, Min(Len(file), ext.pos + chunk_size)), 0)} :
     \E m \in {MatchEndOf(Slice(file, ext.offset, pos2))} :
         IF m # 0
         THEN \E start \in {SeekSet(file_handler.pos, ext.offset)} :
              /\ res' = [res EXCEPT !.plain = Parsed(ext.t, start, start + m)]
              /\ file_handler' = [file_handler EXCEPT !.pos = TextReadEnd(file, start, m)]
              /\ seeker' = "closed"
              /\ pc' = "ready"
              /\ ext' = NoExt
         ELSE /\ ext' = [ext EXCEPT !.pos = pos2, !.iter = @ + 1]
              /\ UNCHANGED <<res, seeker, pc, file_handler>>
  /\ UNCHANGED <<temp_file, mzml_interface, array, decoded, header, file_object,
                 declared, stdout>>
  /\ UNCHANGED <<file, spectrum_offsets, chromatogram_offsets, _spectrum_keys,
                 _chromatogram_keys, path, req>>

\* ------------------------------------------------------ gzip streaming lookups
IsDigit(ch) == ch \in {"0", "1", "2", "3", "4", "5", "6", "7", "8", "9"}

\* SPECTRUM_ID_PATTERN.search(elem_id): group 1 of the leftmost match of
\* ="{0,1}([0-9]*)"{0,1}>{0,1}$ for identifiers without quotes and ">", as
\* [hit, digits].
SpectrumIdPattern(id) ==
  LET hits == {i \in 1..Len(id) :
                 id[i] = "=" /\ \A j \in (i + 1)..Len(id) : IsDigit(id[j])}
  IN  IF hits = {} THEN [hit |-> FALSE, digits |-> <<>>]
      ELSE LET i == CHOOSE x \in hits : \A y \in hits : x <= y
           IN  [hit |-> TRUE, digits |-> Slice(id, i, Len(id))]

\* The test get_spectrum_by_id / get_chromatogram_by_id of StandardGzip makes
\* on an element that ended.
GzipIdMatches(e, t, identifier) ==
  /\ e.tag = t
  /\ e.id # <<>>
  /\ \/ e.id = identifier
     \/ /\ t = "spectrum"
        /\ SpectrumIdPattern(e.id).hit
        /\ SpectrumIdPattern(e.id).digits = identifier

\* The first element of items that satisfies P, as a lookup outcome; the
\* parser's error if it comes first, else the error kind of the lookup.
FirstMatch(ev, hits, t, notfound) ==
  IF hits # {} THEN Elem(ev.items[CHOOSE i \in hits : \A x \in hits : i <= x], t)
  ELSE IF ~ev.ok THEN Raised("ParseError")
  ELSE Raised(notfound)

GzipGetById(r) ==
  /\ MayStart(r, "gzip")
  /\ r \in Identifiers
  /\ req' = r
  /\ \E ev \in {IterParse(file)} :
       \E hits \in {{i \in 1..Len(ev.items) : GzipIdMatches(ev.items[i], r.t, KeyOf(r))}} :
         res' = [plain |-> Keep(r, "plain"), gzip |-> FirstMatch(ev, hits, r.t, "KeyError")]
  /\ UNCHANGED <<temp_file, mzml_interface, array, decoded, header, file_object,
                 declared, stdout>>
  /\ UNCHANGED <<file, pc, spectrum_offsets, chromatogram_offsets, _spectrum_keys,
                 _chromatogram_keys, path, seeker, ext, file_handler>>

\* The number of elements of tag t among the first i items.
CountTag(items, t, i) == Cardinality({j \in 1..i : items[j].tag = t})

GzipGetByIndex(r) ==
  /\ MayStart(r, "gzip")
  /\ r \in Indexes
  /\ req' = r
  /\ \E ev \in {IterParse(file)} :
       \E hits \in {{i \in 1..Len(ev.items) :
                       ev.items[i].tag = r.t /\ CountTag(ev.items, r.t, i - 1) = r.n}} :
         res' = [plain |-> Keep(r, "plain"), gzip |-> FirstMatch(ev, hits, r.t, "IndexError")]
  /\ UNCHANGED <<temp_file, mzml_interface, array, decoded, header, file_object,
                 declared, stdout>>
  /\ UNCHANGED <<file, pc, spectrum_offsets, chromatogram_offsets, _spectrum_keys,
                 _chromatogram_keys, path, seeker, ext, file_handler>>

\* FileInterface._iter_xml_elements on the random-access reader: the elements
\* of the tag in the order their end events come; the generator raises the
\* parser's error after them when the file is not well-formed.
Iterations == {[op |-> "iter", t |-> t, int |-> FALSE, n |-> 0, s |-> <<>>] : t \in Types}

IterXmlElements(r) ==
  /\ MayStart(r, "plain")
  /\ r \in Iterations
  /\ req' = r
  /\ \E ev \in {IterParse(file)} :
       LET IsTag(e) == e.tag = r.t
       IN  res' = [plain |-> [NoRes EXCEPT !.kind = IF ev.ok THEN "items" ELSE "itemsThenParseError",
                                           !.items = SelectSeq(ev.items, IsTag)],
                   gzip |-> NoRes]
  /\ seeker' = "none"
  /\ UNCHANGED <<temp_file, mzml_interface, array, decoded, header, file_object,
                 declared, stdout>>
  /\ UNCHANGED <<file, pc, spectrum_offsets, chromatogram_offsets, _spectrum_keys,
                 _chromatogram_keys, path, ext, file_handler>>

\* read(size) on the random-access reader: the text view moves on by what it
\* reads, all of the rest for a negative size (the default, and the one size
\* followed here).
ReadSizes == {0 - 1}

Read(size) ==
  /\ pc = "ready"
  /\ req = NoReq
  /\ file_handler.open
  /\ file_handler' = [file_handler EXCEPT
                        !.pos = IF size < 0 THEN Len(file) ELSE Min(Len(file), @ + size)]
  /\ UNCHANGED <<temp_file, mzml_interface, array, decoded, header, file_object,
                 declared, stdout>>
  /\ UNCHANGED <<file, pc, spectrum_offsets, chromatogram_offsets, _spectrum_keys,
                 _chromatogram_keys, path, req, res, seeker, ext>>

\* The outcomes are handed to the caller; the readers keep nothing of them.
Return ==
  /\ pc = "ready"
  /\ req # NoReq
  /\ req' = NoReq
  /\ res' = [plain |-> NoRes, gzip |-> NoRes]
  /\ seeker' = "none"
  /\ UNCHANGED <<temp_file, mzml_interface, array, decoded, header, file_object,
                 declared, stdout>>
  /\ UNCHANGED <<file, pc, spectrum_offsets, chromatogram_offsets, _spectrum_keys,
                 _chromatogram_keys, path, ext, file_handler>>

Next ==
  \/ Return
  \/ \E b \in BOOLEAN : Construct(b)
  \/ \E r \in Identifiers : GetById(r)
  \/ \E r \in Indexes : GetByIndex(r)
  \/ ReadToSpecEndStep
  \/ \E r \in Identifiers : GzipGetById(r)
  \/ \E r \in Indexes : GzipGetByIndex(r)
  \/ \E r \in Iterations : IterXmlElements(r)
  \/ \E size \in ReadSizes : Read(size)

Spec == Init /\ [][Next]_vars

\* The arguments FileInterface._open is called with: a BytesIO object, a path
\* that ends in ".gz", or any other path.
PathsOrFiles == {"BytesIO", ".gz", ".mzML"}

\* A multiplexer that looks at the ".gz" suffix before it looks at in_memory.
Implementation_SuffixFirst(path_or_file, in_memory, extract_gzip) ==
  IF path_or_file = "BytesIO" THEN [class |-> "BytesMzml", temp |-> FALSE]
  ELSE IF path_or_file = ".gz"
  THEN IF extract_gzip THEN [class |-> "StandardMzml", temp |-> TRUE]
       ELSE [class |-> "StandardGzip", temp |-> FALSE]
  ELSE IF in_memory THEN [class |-> "BytesMzml", temp |-> FALSE]
  ELSE [class |-> "StandardMzml", temp |-> FALSE]

\* The branches of FileInterface._open in the order it tests them: the class
\* it returns, and whether it makes a NamedTemporaryFile on the way.
Implementation(path_or_file, in_memory, extract_gzip) ==
  IF path_or_file = "BytesIO" THEN [class |-> "BytesMzml", temp |-> FALSE]
  ELSE IF in_memory THEN [class |-> "BytesMzml", temp |-> FALSE]
  ELSE IF path_or_file = ".gz"
  THEN IF extract_gzip THEN [class |-> "StandardMzml", temp |-> TRUE]
       ELSE [class |-> "StandardGzip", temp |-> FALSE]
  ELSE [class |-> "StandardMzml", temp |-> FALSE]

\* FileInterface.__init__ and _open: a BytesIO object is read by a BytesMzml;
\* in_memory reads the (decompressed) content of the path into a BytesMzml; a
\* .gz path is extracted to a NamedTemporaryFile made with delete=False and
\* read by a StandardMzml on the temporary file's name, or, without
\* extraction, streamed by a StandardGzip, which builds no index; any other
\* path is read by a StandardMzml.
_open(path_or_file, in_memory, extract_gzip, from_scratch) ==
  /\ pc = "new"
  /\ file_object' = [path_or_file |-> path_or_file, extract_gzip |-> extract_gzip,
                     in_memory |-> in_memory]
  /\ \E impl \in {Implementation(path_or_file, in_memory, extract_gzip)} :
       /\ mzml_interface' = impl.class
       /\ temp_file' = IF impl.temp THEN [made |-> TRUE, open |-> TRUE, on_disk |-> TRUE]
                       ELSE NoTemp
       /\ IF impl.class = "StandardGzip"
          THEN /\ pc' = "ready"
               /\ UNCHANGED <<spectrum_offsets, chromatogram_offsets, _spectrum_keys,
                              _chromatogram_keys, path, stdout>>
          ELSE \E r \in {BuildIndex(file, from_scratch)} :
                 /\ spectrum_offsets' = r.spec
                 /\ chromatogram_offsets' = r.chrom
                 /\ _spectrum_keys' = r.skeys
                 /\ _chromatogram_keys' = r.ckeys
                 /\ path' = r.path
                 /\ pc' = IF r.path = "raised" THEN "failed" ELSE "ready"
                 /\ stdout' = Emitted(file, declared, r.path)
  /\ file_handler' = [open |-> TRUE, pos |-> 0]
  /\ UNCHANGED <<file, req, res, seeker, ext, array, decoded, header, declared>>

\* FileInterface.close: closes the reader's text view, then the temporary
\* file's handle when there is one; nothing else.
close ==
  /\ pc = "ready"
  /\ req = NoReq
  /\ mzml_interface # "none"
  /\ file_handler' = [file_handler EXCEPT !.open = FALSE]
  /\ temp_file' = IF temp_file.made THEN [temp_file EXCEPT !.open = FALSE] ELSE temp_file
  /\ pc' = "closed"
  /\ UNCHANGED <<file, spectrum_offsets, chromatogram_offsets, _spectrum_keys,
                 _chromatogram_keys, path, req, res, seeker, ext, mzml_interface,
                 array, decoded, header, file_object, declared, stdout>>

\* The reader behind FileInterface: opened, read, closed.
InterfaceNext ==
  \/ \E path_or_file \in PathsOrFiles, in_memory \in BOOLEAN, extract_gzip \in BOOLEAN,
        from_scratch \in BOOLEAN :
       _open(path_or_file, in_memory, extract_gzip, from_scratch)
  \/ \E size \in ReadSizes : Read(size)
  \/ close

InterfaceSpec == Init /\ [][InterfaceNext]_vars

\* ---- binary data arrays ----

\* constants.py, BinaryDataTypeAccession, in the enumeration's order.
FLOAT_32 == "MS:1000521"
FLOAT_64 == "MS:1000523"
INT_32 == "MS:1000519"
INT_64 == "MS:1000522"
ASCII_STRING == "MS:1001479"
BinaryDataTypeAccession == <<FLOAT_32, FLOAT_64, INT_32, INT_64, ASCII_STRING>>

\* constants.py, CompressionTypeAccessions.
BYTE_SHUFFLED_ZSTD == "MS:1003781"
MS_NUMPRESS_SHORT_LOGGED_FLOAT == "MS:1002314"
TRUNCATION_LINEAR_PREDICTION_ZLIB == "MS:1003090"
ZLIB_COMPRESSION == "MS:1000574"
NO_COMPRESSION == "MS:1000576"
DICTIONARY_ENCODED_ZSTD == "MS:1003782"
MS_NUMPRESS_LINEAR_PREDICTION_ZLIB == "MS:1002746"
TRUNCATION_ZLIB == "MS:1003088"
MS_NUMPRESS_SHORT_LOGGED_FLOAT_ZLIB == "MS:1002748"
MS_NUMPRESS_LINEAR_PREDICTION_ZSTD == "MS:1003783"
MS_NUMPRESS_POSITIVE_INTEGER_ZLIB == "MS:1002747"
MS_NUMPRESS_SHORT_LOGGED_FLOAT_ZSTD == "MS:1003785"
MS_NUMPRESS_LINEAR_PREDICTION == "MS:1002312"
MS_NUMPRESS_POSITIVE_INTEGER == "MS:1002313"
TRUNCATION_DELTA_PREDICTION_ZLIB == "MS:1003089"
ZSTD_COMPRESSION == "MS:1003780"
MS_NUMPRESS_POSITIVE_INTEGER_ZSTD == "MS:1003784"
CompressionTypeAccessions ==
  { BYTE_SHUFFLED_ZSTD, MS_NUMPRESS_SHORT_LOGGED_FLOAT, TRUNCATION_LINEAR_PREDICTION_ZLIB,
    ZLIB_COMPRESSION, NO_COMPRESSION, DICTIONARY_ENCODED_ZSTD,
    MS_NUMPRESS_LINEAR_PREDICTION_ZLIB, TRUNCATION_ZLIB, MS_NUMPRESS_SHORT_LOGGED_FLOAT_ZLIB,
    MS_NUMPRESS_LINEAR_PREDICTION_ZSTD, MS_NUMPRESS_POSITIVE_INTEGER_ZLIB,
    MS_NUMPRESS_SHORT_LOGGED_FLOAT_ZSTD, MS_NUMPRESS_LINEAR_PREDICTION,
    MS_NUMPRESS_POSITIVE_INTEGER, TRUNCATION_DELTA_PREDICTION_ZLIB, ZSTD_COMPRESSION,
    MS_NUMPRESS_POSITIVE_INTEGER_ZSTD }

\* constants.py, BinaryDataArrayAccession.MZ.
MZ_ARRAY == "MS:1000514"

\* constants.py, BinaryDataArrayAccession: the two members followed here, in
\* the enumeration's order (TIME stands before MZ).
TIME_ARRAY == "MS:1000595"
BinaryDataArrayAccession == <<TIME_ARRAY, MZ_ARRAY>>

Accessions ==
  CompressionTypeAccessions \cup ToSet(BinaryDataTypeAccession) \cup ToSet(BinaryDataArrayAccession)

\* constants.py, BINARY_DECODE_DTYPES: .get(accession, None).
BINARY_DECODE_DTYPES(data_type) ==
  CASE data_type = FLOAT_32 -> "float32"
    [] data_type = FLOAT_64 -> "float64"
    [] data_type = INT_32 -> "int32"
    [] data_type = INT_64 -> "int64"
    [] OTHER -> "None"

\* The binary data arrays: the accessions of the cvParam children in document
\* order, whether there is a <binary> child, whether it has text, and the
\* number of bytes the text's base64 decoding has.
ParamLists == UNION { [1..n -> Accessions] : n \in 0..MaxParams }
Arrays ==
  { [cv_params |-> c, binary |-> b, text |-> t, nbytes |-> n] :
      c \in ParamLists, b \in BOOLEAN, t \in BOOLEAN, n \in 0..MaxBytes }
  \ { a \in [cv_params : ParamLists, binary : BOOLEAN, text : BOOLEAN, nbytes : 0..MaxBytes] :
        (~a.binary /\ a.text) \/ (~a.text /\ a.nbytes # 0) }

\* BinaryDataArray.compression: the first cvParam whose accession is one of
\* CompressionTypeAccessions, or None.
compression(a) ==
  IF \E i \in 1..Len(a.cv_params) : a.cv_params[i] \in CompressionTypeAccessions
  THEN a.cv_params[CHOOSE i \in 1..Len(a.cv_params) :
                     /\ a.cv_params[i] \in CompressionTypeAccessions
                     /\ \A j \in 1..(i - 1) : a.cv_params[j] \notin CompressionTypeAccessions]
  ELSE "None"

\* BinaryDataArray.encoding: the first member of BinaryDataTypeAccession, in
\* the enumeration's order, that is among the cvParams' accessions, or None.
encoding(a) ==
  IF \E k \in 1..Len(BinaryDataTypeAccession) : BinaryDataTypeAccession[k] \in ToSet(a.cv_params)
  THEN BinaryDataTypeAccession[CHOOSE k \in 1..Len(BinaryDataTypeAccession) :
                     /\ BinaryDataTypeAccession[k] \in ToSet(a.cv_params)
                     /\ \A j \in 1..(k - 1) : BinaryDataTypeAccession[j] \notin ToSet(a.cv_params)]
  ELSE "None"

\* BinaryDataArray.binary_array_type: the first member of
\* BinaryDataArrayAccession, in the enumeration's order, that is among the
\* cvParams' accessions, or None.
binary_array_type(a) ==
  IF \E k \in 1..Len(BinaryDataArrayAccession) : BinaryDataArrayAccession[k] \in ToSet(a.cv_params)
  THEN BinaryDataArrayAccession[CHOOSE k \in 1..Len(BinaryDataArrayAccession) :
                     /\ BinaryDataArrayAccession[k] \in ToSet(a.cv_params)
                     /\ \A j \in 1..(k - 1) : BinaryDataArrayAccession[j] \notin ToSet(a.cv_params)]
  ELSE "None"

\* One library call of a decoding, with the dtype it was given.
Step(f, arg) == [f |-> f, arg |-> arg]
b64decode == Step("base64.b64decode", "")
decode_zlib == Step("zlib.decompress", "")
decode_ztsd == Step("zstd.decompress", "")
decode_linear == Step("pynumpress.decodeLinear", "")
decode_pic == Step("pynumpress.decodePic", "")
decode_slof == Step("pynumpress.decodeSlof", "")

\* spectra.decode_to_numpy, after the calls in steps produced its data.
decode_to_numpy(steps, data_type, w) ==
  IF BINARY_DECODE_DTYPES(data_type) = "None"
  THEN [kind |-> "ValueError", steps |-> steps, warnings |-> w]
  ELSE [kind |-> "array", warnings |-> w,
        steps |-> steps \o << Step("np.frombuffer", BINARY_DECODE_DTYPES(data_type)),
                              Step("astype", "float64") >>]

\* A numpress decoder's result: float64 whatever the declared type.
Numpress(steps, w) == [kind |-> "array", steps |-> steps, warnings |-> w]
NotImplementedError(w) == [kind |-> "NotImplementedError", steps |-> <<b64decode>>, warnings |-> w]

\* A decoder that reinterprets the base64 bytes whatever the compression.
Match_RawOnly(compression_type, binary_data_type, w) ==
  decode_to_numpy(<<b64decode>>, binary_data_type, w)

\* BinaryDataArray._decode, the match on compression_type of a non-empty
\* out_data: the cases in the order of the source.
Match(compression_type, binary_data_type, w) ==
  CASE compression_type = BYTE_SHUFFLED_ZSTD -> NotImplementedError(w)
    [] compression_type = MS_NUMPRESS_SHORT_LOGGED_FLOAT ->
         Numpress(<<b64decode, decode_slof>>, w)
    [] compression_type = TRUNCATION_LINEAR_PREDICTION_ZLIB -> NotImplementedError(w)
    [] compression_type = ZLIB_COMPRESSION ->
         decode_to_numpy(<<b64decode, decode_zlib>>, binary_data_type, w)
    [] compression_type = NO_COMPRESSION ->
         decode_to_numpy(<<b64decode>>, binary_data_type, w)
    [] compression_type = DICTIONARY_ENCODED_ZSTD -> NotImplementedError(w)
    [] compression_type = MS_NUMPRESS_LINEAR_PREDICTION_ZLIB ->
         Numpress(<<b64decode, decode_zlib, decode_linear>>, w)
    [] compression_type = TRUNCATION_ZLIB ->
         decode_to_numpy(<<b64decode, decode_zlib>>, binary_data_type, w)
    [] compression_type = MS_NUMPRESS_SHORT_LOGGED_FLOAT_ZLIB ->
         Numpress(<<b64decode, decode_zlib, decode_slof>>, w)
    [] compression_type = MS_NUMPRESS_LINEAR_PREDICTION_ZSTD ->
         Numpress(<<b64decode, decode_ztsd, decode_linear>>, w)
    [] compression_type = MS_NUMPRESS_POSITIVE_INTEGER_ZLIB ->
         Numpress(<<b64decode, decode_zlib, decode_pic>>, w)
    [] compression_type = MS_NUMPRESS_SHORT_LOGGED_FLOAT_ZSTD ->
         Numpress(<<b64decode, decode_ztsd, decode_slof>>, w)
    [] compression_type = MS_NUMPRESS_LINEAR_PREDICTION ->
         Numpress(<<b64decode, decode_linear>>, w)
    [] compression_type = MS_NUMPRESS_POSITIVE_INTEGER ->
         Numpress(<<b64decode, decode_pic>>, w)
    [] compression_type = TRUNCATION_DELTA_PREDICTION_ZLIB -> NotImplementedError(w)
    [] compression_type = ZSTD_COMPRESSION ->
         decode_to_numpy(<<b64decode, decode_ztsd>>, binary_data_type, w)
    [] compression_type = MS_NUMPRESS_POSITIVE_INTEGER_ZSTD ->
         Numpress(<<b64decode, decode_ztsd, decode_pic>>, w)
    [] OTHER -> decode_to_numpy(<<b64decode>>, binary_data_type, w)

\* np.array([], dtype=np.float64), returned before the match.
EmptyArray(steps, w) == [kind |-> "empty", steps |-> steps, warnings |-> w]

\* A decoder that dispatches on the compression whatever the payload holds.
DecodeFrom_MatchFirst(a, compression_type, binary_data_type, w) ==
  Match(compression_type, binary_data_type, w)

\* BinaryDataArray._decode: the defaults with their warnings, the two empty
\* payload returns, then the match.
DecodeFrom(a, compression_type, binary_data_type, w) ==
  IF ~a.binary \/ ~a.text
  THEN EmptyArray(<<>>, w \cup {"Binary data array does not contain binary data."})
  ELSE IF a.nbytes = 0
  THEN EmptyArray(<<b64decode>>, w \cup {"Decoded binary data is empty."})
  ELSE Match(compression_type, binary_data_type, w)

_decode(a) ==
  DecodeFrom(a,
             IF compression(a) = "None" THEN NO_COMPRESSION ELSE compression(a),
             IF encoding(a) = "None" THEN FLOAT_64 ELSE encoding(a),
             (IF compression(a) = "None" THEN {"Compression type not specified."} ELSE {})
               \cup (IF encoding(a) = "None" THEN {"Binary data type not specified."} ELSE {}))

\* BinaryDataArray.data
data ==
  /\ decoded = NoDecoded
  /\ array \in Arrays
  /\ decoded' = _decode(array)
  /\ UNCHANGED <<file, pc, spectrum_offsets, chromatogram_offsets, _spectrum_keys,
                 _chromatogram_keys, path, req, res, seeker, ext, file_handler,
                 temp_file, mzml_interface, array, header, file_object, declared,
                 stdout>>

\* A binary data array taken from an element, and decoded.
DecodeInit ==
  /\ file = <<>>
  /\ pc = "new"
  /\ spectrum_offsets = <<>>
  /\ chromatogram_offsets = <<>>
  /\ _spectrum_keys = <<>>
  /\ _chromatogram_keys = <<>>
  /\ path = "none"
  /\ req = NoReq
  /\ res = [plain |-> NoRes, gzip |-> NoRes]
  /\ seeker = "none"
  /\ ext = NoExt
  /\ file_handler = [open |-> FALSE, pos |-> 0]
  /\ temp_file = NoTemp
  /\ mzml_interface = "none"
  /\ array \in Arrays
  /\ decoded = NoDecoded
  /\ header = NoHeader
  /\ file_object = NoInterface
  /\ declared = NoDeclared
  /\ stdout = {}

DecodeNext == data

DecodeSpec == DecodeInit /\ [][DecodeNext]_vars

\* ---- the header parse ----

\* The attributes of an mzML element ("None": the attribute is absent;
\* schemaLocation as its tokens) and of any other element.
MzmlAttribs ==
  [id : {"None", "doc"}, version : {"None", "1.1.0"},
   schemaLocation : {<<>>, <<"http://psi.hupo.org/ms/mzml", "1.0.0", "1.1.0">>}]
NoAttrib == [id |-> "None", version |-> "None", schemaLocation |-> <<>>]

\* An element of a header document: its tag, its id and its children.
Elt(tag, id, children) == [tag |-> tag, id |-> id, children |-> children]
HeaderElements ==
  { Elt("cv", "MS", <<>>), Elt("cv", "UO", <<>>), Elt("fileDescription", "", <<>>),
    Elt("softwareList", "", <<Elt("software", "sw", <<>>), Elt("userParam", "", <<>>)>>),
    Elt("run", "r", <<>>) }
HeaderDocs ==
  [indexed : BOOLEAN, attrib : MzmlAttribs,
   items : UNION { [1..n -> HeaderElements] : n \in 0..MaxHeader }]

\* ElementTree.iterparse(file_handle, events=("end", "start")): an element's
\* children are attached to it by its end event, not yet at its start event.
Event(event, e, attrib, children) ==
  [event |-> event, tag |-> e.tag, id |-> e.id, attrib |-> attrib, children |-> children]
ChildEvents(e) ==
  Flatten([i \in 1..Len(e.children) |->
             << Event("start", e.children[i], NoAttrib, <<>>),
                Event("end", e.children[i], NoAttrib, <<>>) >>])
ElementEvents(e) ==
  <<Event("start", e, NoAttrib, <<>>)>> \o ChildEvents(e) \o <<Event("end", e, NoAttrib, e.children)>>
HeaderEvents(d) ==
  (IF d.indexed THEN <<Event("start", Elt("indexedmzML", "", <<>>), NoAttrib, <<>>)>> ELSE <<>>)
  \o <<Event("start", Elt("mzML", "", <<>>), d.attrib, <<>>)>>
  \o Flatten([i \in 1..Len(d.items) |-> ElementEvents(d.items[i])])
  \o <<Event("end", Elt("mzML", "", <<>>), d.attrib, <<>>)>>
  \o (IF d.indexed THEN <<Event("end", Elt("indexedmzML", "", <<>>), NoAttrib, <<>>)>> ELSE <<>>)

\* regex_patterns.MZML_VERSION_PATTERN.search on a schemaLocation: the first
\* digits.digits.digits of it, or None.
VersionTokens == {"1.0.0", "1.1.0"}
MZML_VERSION_PATTERN(loc) ==
  IF \E i \in 1..Len(loc) : loc[i] \in VersionTokens
  THEN loc[CHOOSE i \in 1..Len(loc) :
             loc[i] \in VersionTokens /\ \A j \in 1..(i - 1) : loc[j] \notin VersionTokens]
  ELSE "None"

\* MzMLContentBuilder._handle_mzml
_handle_mzml(h, e) ==
  [h EXCEPT !._version = IF e.attrib.version \notin {"None", ""} THEN e.attrib.version
                         ELSE IF MZML_VERSION_PATTERN(e.attrib.schemaLocation) # "None"
                         THEN MZML_VERSION_PATTERN(e.attrib.schemaLocation)
                         ELSE @,
            !._id = IF e.attrib.id = "None" THEN "" ELSE e.attrib.id]

\* The dispatch table MzMLContentBuilder._handlers, for the tags of the header
\* documents: _handle_cv, _handle_file_description, _handle_software_list.
_handlers == {"cv", "fileDescription", "softwareList"}
SoftwareOf(children) ==
  Flatten([i \in 1..Len(children) |->
             IF children[i].tag = "software" THEN <<children[i].id>> ELSE <<>>])
Dispatch(h, e) ==
  CASE e.tag = "cv" -> [h EXCEPT !._cv_list = Append(@, e.id)]
    [] e.tag = "fileDescription" -> [h EXCEPT !._file_description = e.id]
    [] e.tag = "softwareList" -> [h EXCEPT !._software_list = @ \o SoftwareOf(e.children)]

\* parse_from_iterator returns at this event.
StopsAt_Never(e) == FALSE
StopsAt(e) == e.event = "start" /\ e.tag = "run"

\* Mzml._parse_metadata up to its call of parse_from_iterator: iterparse on
\* a fresh handle, and next(mzml_iter) takes the first event for the root.
_parse_metadata ==
  /\ header.state = "new"
  /\ header' = [header EXCEPT !.state = "parsing", !.pos = 1]
  /\ UNCHANGED <<file, pc, spectrum_offsets, chromatogram_offsets, _spectrum_keys,
                 _chromatogram_keys, path, req, res, seeker, ext, file_handler,
                 temp_file, mzml_interface, array, decoded, file_object, declared,
                 stdout>>

\* MzMLContentBuilder.parse_from_iterator, one turn of its loop: the iterator
\* is exhausted, or the next event is taken and handled.
parse_from_iterator ==
  /\ header.state = "parsing"
  /\ IF header.pos >= Len(header.events)
     THEN header' = [header EXCEPT !.state = "parsed"]
     ELSE \E e \in {header.events[header.pos + 1]} :
          \E h \in {[header EXCEPT !.pos = @ + 1]} :
            header' = IF e.event = "start" /\ e.tag = "mzML" THEN _handle_mzml(h, e)
                      ELSE IF StopsAt(e) THEN [h EXCEPT !._run = e.id, !.state = "parsed"]
                      ELSE IF e.event = "end" /\ e.tag \in _handlers
                      THEN [Dispatch(h, e) EXCEPT !.handled = Append(@, h.pos)]
                      ELSE h
  /\ UNCHANGED <<file, pc, spectrum_offsets, chromatogram_offsets, _spectrum_keys,
                 _chromatogram_keys, path, req, res, seeker, ext, file_handler,
                 temp_file, mzml_interface, array, decoded, file_object, declared,
                 stdout>>

\* MzMLContentBuilder.build, at the end of Mzml.__init__.
build ==
  /\ header.state = "parsed"
  /\ header' = [header EXCEPT !.state = "built"]
  /\ UNCHANGED <<file, pc, spectrum_offsets, chromatogram_offsets, _spectrum_keys,
                 _chromatogram_keys, path, req, res, seeker, ext, file_handler,
                 temp_file, mzml_interface, array, decoded, file_object, declared,
                 stdout>>

\* A reader's header parse on a header document.
HeaderInit ==
  /\ file = <<>>
  /\ pc = "new"
  /\ spectrum_offsets = <<>>
  /\ chromatogram_offsets = <<>>
  /\ _spectrum_keys = <<>>
  /\ _chromatogram_keys = <<>>
  /\ path = "none"
  /\ req = NoReq
  /\ res = [plain |-> NoRes, gzip |-> NoRes]
  /\ seeker = "none"
  /\ ext = NoExt
  /\ file_handler = [open |-> FALSE, pos |-> 0]
  /\ temp_file = NoTemp
  /\ mzml_interface = "none"
  /\ array = NoArray
  /\ decoded = NoDecoded
  /\ header \in {[NoHeader EXCEPT !.state = "new", !.events = HeaderEvents(d)] : d \in HeaderDocs}
  /\ file_object = NoInterface
  /\ declared = NoDeclared
  /\ stdout = {}

HeaderNext == _parse_metadata \/ parse_from_iterator \/ build

HeaderSpec == HeaderInit /\ [][HeaderNext]_vars




\* ---- lookup objects ----

\* A slice bound that is None.
None == 0 - 9

\* slice(start, stop, step) objects: s = <<start, stop, step>>.
Slices ==
  {[op |-> "slice", t |-> t, int |-> TRUE, n |-> 0, s |-> <<a, b, c>>] :
     t \in Types, a \in {None, 1, 0 - 1}, b \in {None, 1}, c \in {None, 0 - 1}}

\* range(*slice(start, stop, step).indices(n)) and the positions a list of
\* length n gives for the same slice: the 0-based indices, in order.
RECURSIVE Range(_, _, _)
Range(start, stop, step) ==
  IF (step > 0 /\ start >= stop) \/ (step < 0 /\ start <= stop) THEN <<>>
  ELSE <<start>> \o Range(start + step, stop, step)
SliceIndices(s, n) ==
  LET step == IF s[3] = None THEN 1 ELSE s[3]
      lower == IF step > 0 THEN 0 ELSE 0 - 1
      upper == IF step > 0 THEN n ELSE n - 1
      Adjust(x, default) ==
        IF x = None THEN default
        ELSE IF x < 0 THEN Max(x + n, lower) ELSE Min(x, upper)
  IN  Range(Adjust(s[1], IF step < 0 THEN upper ELSE lower),
            Adjust(s[2], IF step < 0 THEN lower ELSE upper), step)
ListSlice(items, s) ==
  [k \in 1..Len(SliceIndices(s, Len(items))) |-> items[SliceIndices(s, Len(items))[k] + 1]]

\* _read_to_spec_end on a cursor of its own: the length from the offset to the
\* end of the matched close tag, 0 when MaxIter passes of its loop find none.
RECURSIVE _read_to_spec_end(_, _, _)
_read_to_spec_end(offset, pos, iter) ==
  IF iter >= MaxIter THEN 0
  ELSE LET pos2 == ReadUntilTagEnd(file, Max(pos, Min(Len(file), pos + chunk_size)), 0)
           m == MatchEndOf(Slice(file, offset, pos2))
       IN  IF m # 0 THEN m ELSE _read_to_spec_end(offset, pos2, iter + 1)

\* BaseLookup.get_by_index on the random-access reader, from call to return.
get_by_index(t, index) ==
  IF KeyPosition(t, index) = 0 THEN Raised("IndexError")
  ELSE LET key == KeyList(t)[KeyPosition(t, index)]
       IN  IF ~Has(Table(t), key) THEN Raised("KeyError")
           ELSE LET offset == Get(Table(t), key)
                    m == _read_to_spec_end(offset, Max(offset, Min(Len(file), offset + chunk_size)), 0)
                IN  IF m = 0 THEN Raised("running") ELSE Parsed(t, offset, offset + m)

\* BaseLookup.count, with no count given to the lookup.
count(t) == IF t = "spectrum" THEN spectrum_count ELSE chromatogram_count

\* list(self): the items FileInterface.iter_spectra / iter_chromatograms yield.
Items(t) ==
  LET IsTag(e) == e.tag = t
  IN  SelectSeq(IterParse(file).items, IsTag)
ItemsOf(elems) == [NoRes EXCEPT !.kind = "items", !.items = elems]

\* The first outcome of a sequence that is no element, or NoRes.
RECURSIVE FirstRaised(_)
FirstRaised(outcomes) ==
  IF outcomes = <<>> THEN NoRes
  ELSE IF Head(outcomes).kind # "elem" THEN Head(outcomes)
  ELSE FirstRaised(Tail(outcomes))

\* BaseLookup.get_by_slice
get_by_slice(t, s) ==
  IF count(t) = NoCount
  THEN IF IterParse(file).ok THEN ItemsOf(ListSlice(Items(t), s)) ELSE Raised("ParseError")
  ELSE LET got == [k \in 1..Len(SliceIndices(s, count(t))) |->
                     get_by_index(t, SliceIndices(s, count(t))[k])]
       IN  IF FirstRaised(got) # NoRes THEN FirstRaised(got)
           ELSE ItemsOf([k \in 1..Len(got) |-> [tag |-> got[k].tag, id |-> got[k].id, n |-> got[k].n]])

\* spectra[s] / chromatograms[s] on the random-access reader, as the first
\* call on a lookup object.
__getitem__(r) ==
  /\ pc = "ready"
  /\ req = NoReq
  /\ r \in Slices
  /\ req' = r
  /\ res' = [plain |-> get_by_slice(r.t, r.s), gzip |-> NoRes]
  /\ UNCHANGED <<temp_file, mzml_interface, array, decoded, header, file_object,
                 declared, stdout>>
  /\ UNCHANGED <<file, pc, spectrum_offsets, chromatogram_offsets, _spectrum_keys,
                 _chromatogram_keys, path, seeker, ext, file_handler>>

\* next(iter(self)): the first item a new iterator yields, StopIteration when
\* it yields none, the parser's error when that comes before any item.
FirstOfNewIterator(t) ==
  IF Items(t) # <<>> THEN Elem(Items(t)[1], t)
  ELSE IF IterParse(file).ok THEN Raised("StopIteration") ELSE Raised("ParseError")

\* BaseLookup.next; req.n counts the calls made on the lookup object.
next(t) ==
  /\ pc = "ready"
  /\ \/ req = NoReq
     \/ req.op = "next" /\ req.t = t /\ req.n < MaxCalls
  /\ req' = [op |-> "next", t |-> t, int |-> TRUE, n |-> req.n + 1, s |-> <<>>]
  /\ res' = [plain |-> FirstOfNewIterator(t), gzip |-> NoRes]
  /\ UNCHANGED <<temp_file, mzml_interface, array, decoded, header, file_object,
                 declared, stdout>>
  /\ UNCHANGED <<file, pc, spectrum_offsets, chromatogram_offsets, _spectrum_keys,
                 _chromatogram_keys, path, seeker, ext, file_handler>>

LookupNext ==
  \/ \E b \in BOOLEAN : Construct(b)
  \/ \E r \in Slices : __getitem__(r)
  \/ \E t \in Types : next(t)

LookupSpec == Init /\ [][LookupNext]_vars

\* ---- documents with characters of more than one byte ----

\* A byte that continues the character begun by the byte before it.
Cont == Cell("cont", "", <<>>, 0)

\* The file f with the content characters numbered in wide (counted from k
\* on) encoded in two bytes.
RECURSIVE Widen(_, _, _)
Widen(f, wide, k) ==
  IF f = <<>> THEN <<>>
  ELSE IF Head(f).k = "data"
  THEN <<Head(f)>> \o (IF (k + 1) \in wide THEN <<Cont>> ELSE <<>>) \o Widen(Tail(f), wide, k + 1)
  ELSE <<Head(f)>> \o Widen(Tail(f), wide, k)

WideFiles == {Widen(BodyCells(d, FALSE), wide, 0) : d \in Docs, wide \in SUBSET (1..MaxElems)}

\* A random-access reader on such a document.
TextInit ==
  /\ file \in WideFiles
  /\ pc = "new"
  /\ spectrum_offsets = <<>>
  /\ chromatogram_offsets = <<>>
  /\ _spectrum_keys = <<>>
  /\ _chromatogram_keys = <<>>
  /\ path = "none"
  /\ req = NoReq
  /\ res = [plain |-> NoRes, gzip |-> NoRes]
  /\ seeker = "none"
  /\ ext = NoExt
  /\ file_handler = [open |-> FALSE, pos |-> 0]
  /\ temp_file = NoTemp
  /\ mzml_interface = "none"
  /\ array = NoArray
  /\ decoded = NoDecoded
  /\ header = NoHeader
  /\ file_object = NoInterface
  /\ declared = NoDeclared
  /\ stdout = {}

TextNext ==
  \/ Return
  \/ \E b \in BOOLEAN : Construct(b)
  \/ \E r \in Identifiers : GetById(r)
  \/ ReadToSpecEndStep

TextSpec == TextInit /\ [][TextNext]_vars

\* ---- documents whose list elements declare counts ----

\* The count attributes a document's spectrumList and chromatogramList carry.
Counts == [speccnt : 0..MaxElems, chromcnt : 0..MaxElems]

\* A random-access reader on a document with any declared counts.
CountInit ==
  /\ file \in Files
  /\ pc = "new"
  /\ spectrum_offsets = <<>>
  /\ chromatogram_offsets = <<>>
  /\ _spectrum_keys = <<>>
  /\ _chromatogram_keys = <<>>
  /\ path = "none"
  /\ req = NoReq
  /\ res = [plain |-> NoRes, gzip |-> NoRes]
  /\ seeker = "none"
  /\ ext = NoExt
  /\ file_handler = [open |-> FALSE, pos |-> 0]
  /\ temp_file = NoTemp
  /\ mzml_interface = "none"
  /\ array = NoArray
  /\ decoded = NoDecoded
  /\ header = NoHeader
  /\ file_object = NoInterface
  /\ declared \in Counts
  /\ stdout = {}

CountNext == \E b \in BOOLEAN : Construct(b)

CountSpec == CountInit /\ [][CountNext]_vars

\* ===================================================================== claims
\* What the claims speak of, read off the cells of the file.

\* The element starts of the file in document order: type, id and offset.
ElementStarts(f) ==
  LET opens == {i \in 1..Len(f) : f[i].k = "open"}
      IdOf(i) == f[CHOOSE j \in (i + 1)..Len(f) :
                     f[j].k = "id" /\ \A m \in (i + 1)..(j - 1) : f[m].k = "pad"].id
      Nth(k) == CHOOSE i \in opens : Cardinality({x \in opens : x < i}) = k - 1
  IN  [k \in 1..Cardinality(opens) |->
         [sec |-> f[Nth(k)].t, idRef |-> IdOf(Nth(k)), off |-> Nth(k) - 1]]

\* The <offset> entries of the file in order, each with the name of the
\* <index> header before it.
ListedEntries(f) ==
  LET offs == {i \in 1..Len(f) : f[i].k = "offset"}
      Nth(k) == CHOOSE i \in offs : Cardinality({x \in offs : x < i}) = k - 1
      SecOf(i) == f[CHOOSE h \in 1..i : f[h].k = "index"
                                         /\ \A m \in (h + 1)..i : f[m].k # "index"].t
  IN  [k \in 1..Cardinality(offs) |->
         [sec |-> SecOf(Nth(k)), idRef |-> f[Nth(k)].id, off |-> f[Nth(k)].n]]

\* The footer names the offset of an <indexList>.
HasIndex(f) ==
  /\ f # <<>>
  /\ f[Len(f)].k = "indexListOffset"
  /\ f[Len(f)].n >= 0 /\ f[Len(f)].n < Len(f)
  /\ f[f[Len(f)].n + 1].k = "indexList"

\* The embedded index lists every spectrum and chromatogram of the file.
CorrectlyIndexed(f) == HasIndex(f) /\ ListedEntries(f) = ElementStarts(f)

Constructed == pc \in {"ready", "extract"}

NoTwoAlike(s) == Cardinality({s[i] : i \in 1..Len(s)}) = Len(s)

\* C1: after the reader is constructed no two keys of the spectrum table, no
\* two keys of the chromatogram table, and no key of one and key of the other
\* carry the same offset.
C1_NoSharedOffset ==
  Constructed =>
    NoTwoAlike(Values(spectrum_offsets) \o Values(chromatogram_offsets))

\* C2: opening a file whose embedded index holds two <offset> entries of the
\* same value (here under two different idRefs), with the index read (no
\* rebuild asked for), fails in the constructor.
C2_DuplicateOffsetsRejected ==
  ( /\ pc # "new"
    /\ path # "scratch"
    /\ HasIndex(file)
    /\ \E i, j \in 1..Len(file) :
         /\ file[i].k = "offset" /\ file[j].k = "offset"
         /\ file[i].id # file[j].id /\ file[i].n = file[j].n )
  => pc = "failed"

\* C3: for a file with a correct embedded index, the tables construction
\* leaves are those the other way of building them gives: the index read
\* against the whole-file scan, and the scan against the index read.
C3_SameTablesEitherWay ==
  (Constructed /\ CorrectlyIndexed(file)) =>
    LET other == BuildIndex(file, path # "scratch")
    IN  /\ spectrum_offsets = other.spec
        /\ chromatogram_offsets = other.chrom

\* C4: every offset in the spectrum table is where a spectrum start tag
\* begins in the file, and every offset in the chromatogram table is where a
\* chromatogram start tag begins; stated here for the tables the rebuild scan
\* leaves (asked for, or run after the embedded index could not be read).
C4_OffsetsAtStartTags ==
  (Constructed /\ path \in {"scratch", "fallback"}) =>
    \A t \in Types : \A i \in 1..Len(Table(t)) :
      LET o == Table(t)[i].off
      IN  /\ o >= 0 /\ o < Len(file)
          /\ file[o + 1].k = "open"
          /\ file[o + 1].t = t

CountOf(t) == IF t = "spectrum" THEN spectrum_count ELSE chromatogram_count

\* A well-formed document without an embedded index, in which no two
\* elements of one type carry the same id.
PlainDocument(f) ==
  /\ IterParse(f).ok
  /\ \A i \in 1..Len(f) : f[i].k \notin {"indexList", "index", "offset", "indexListOffset"}
  /\ NoTwoAlike([k \in 1..Len(ElementStarts(f)) |->
                   <<ElementStarts(f)[k].sec, ElementStarts(f)[k].idRef>>])

\* C5: iterating the spectra (chromatograms) of a reader yields as many items
\* as the count the reader gives for lookup by index, whenever it gives one;
\* stated here for well-formed documents without index and with unique ids.
C5_IterationYieldsCountItems ==
  ( /\ PlainDocument(file)
    /\ req.op = "iter" /\ res.plain.kind = "items"
    /\ CountOf(req.t) # NoCount )
  => Len(res.plain.items) = CountOf(req.t)

\* C6: for the same document and the same 0-based index, the random-access
\* reader raises a bounds error exactly when the gzip streaming reader does;
\* stated here for well-formed documents without index and with unique ids,
\* all of whose elements the tables of the random-access reader list.
C6_BoundsErrorsAgree ==
  ( /\ PlainDocument(file)
    /\ Len(spectrum_offsets) + Len(chromatogram_offsets) = Len(ElementStarts(file))
    /\ req.op = "index"
    /\ res.plain.kind \notin {"none", "running"} /\ res.gzip.kind # "none" )
  => (res.plain.kind = "IndexError" <=> res.gzip.kind = "IndexError")

\* The key a lookup by identifier asks for: the decimal string of an integer
\* (one digit here), the string itself otherwise.
AskedKey ==
  IF req.int THEN << <<"0", "1", "2", "3", "4", "5", "6", "7", "8", "9">>[req.n + 1] >>
  ELSE req.s

\* C7: in a random-access reader a lookup by identifier raises KeyError
\* exactly when the key asked for (an integer as its decimal string) is not
\* in the table, and then no cursor on the file was opened; an element it
\* returns is the one that starts at the offset the table holds under
\* exactly that key.
C7_LookupByIdUsesTheKey ==
  (req.op = "id" /\ res.plain.kind # "none") =>
    LET table == Table(req.t)
        at == {i \in 1..Len(table) : table[i].key = AskedKey}
    IN  /\ res.plain.kind = "KeyError" <=> at = {}
        /\ res.plain.kind = "KeyError" => seeker = "none"
        /\ res.plain.kind = "elem" =>
             \E i \in at :
               /\ file[table[i].off + 1].k = "open"
               /\ file[table[i].off + 1].n = res.plain.n
               /\ file[table[i].off + 1].t = res.plain.tag

\* C7 happens: an integer identifier found its element under its decimal
\* string.
C7_IntegerFound ==
  /\ req.op = "id" /\ req.int
  /\ res.plain.kind = "elem"
  /\ res.plain.id = <<"1">>

\* C8: the gzip streaming reader returns a spectrum for an identifier (an
\* integer as its decimal string) only if the spectrum's id equals the
\* identifier.
C8_GzipReturnsOnlyEqualId ==
  (req.op = "id" /\ req.t = "spectrum" /\ res.gzip.kind = "elem") =>
    res.gzip.id = AskedKey

\* C9: in a random-access reader, lookup by an index k < 0 or k >= the number
\* of entries of the table raises a bounds error, for spectra and for
\* chromatograms.
C9_OutOfRangeIndexRaises ==
  ( /\ req.op = "index"
    /\ res.plain.kind \notin {"none", "running"}
    /\ (req.n < 0 \/ req.n >= Len(Table(req.t))) )
  => res.plain.kind = "IndexError"

\* C10: once a pass of the extractor has read to the end of the file without
\* finding a close tag, the extractor leaves its loop: it makes no further
\* pass.
C10_ExtractorStopsAtEndOfFile ==
  [][ (pc = "extract" /\ ext.iter >= 1 /\ ext.pos >= Len(file)) => pc' # "extract" ]_vars

\* C11: when the footer is read (no rebuild asked for) and its
\* <indexListOffset> holds no digits, the error of reading it is caught and
\* the whole-file scan follows: the reader is constructed on the fallback
\* path.
C11_FooterErrorFallsBack ==
  ( /\ pc # "new"
    /\ path # "scratch"
    /\ file # <<>>
    /\ file[Len(file)].k = "indexListOffset"
    /\ file[Len(file)].n < 0 )
  => (pc = "ready" /\ path = "fallback")

\* The end _read_to_spec_end finds for the element at offset when it runs on
\* a cursor of its own from the first read on: the length up to the end of
\* the close tag, or 0 when MaxIter passes find none.
RECURSIVE FreshEnd(_, _, _)
FreshEnd(offset, pos, iter) ==
  IF iter >= MaxIter THEN 0
  ELSE LET pos2 == ReadUntilTagEnd(file, Max(pos, Min(Len(file), pos + chunk_size)), 0)
           m == MatchEndOf(Slice(file, offset, pos2))
       IN  IF m # 0 THEN m ELSE FreshEnd(offset, pos2, iter + 1)

\* The outcome of the lookup req as a function of the file, the tables and
\* the request alone.
FreshOutcome ==
  LET p == IF req.op = "index" THEN KeyPosition(req.t, req.n) ELSE 0
      key == IF req.op = "index" THEN (IF p = 0 THEN <<>> ELSE KeyList(req.t)[p]) ELSE AskedKey
  IN  IF req.op = "index" /\ p = 0 THEN Raised("IndexError")
      ELSE IF ~Has(Table(req.t), key) THEN Raised("KeyError")
      ELSE LET offset == Get(Table(req.t), key)
               m == FreshEnd(offset, Max(offset, Min(Len(file), offset + chunk_size)), 0)
           IN  IF m = 0 THEN Raised("running") ELSE Parsed(req.t, offset, offset + m)

OutcomeIsFresh ==
  (req.op \in {"id", "index"} /\ res.plain.kind \notin {"none", "running"})
    => res.plain = FreshOutcome

TablesKept ==
  pc \in {"ready", "extract"} =>
    /\ spectrum_offsets' = spectrum_offsets
    /\ chromatogram_offsets' = chromatogram_offsets
    /\ _spectrum_keys' = _spectrum_keys
    /\ _chromatogram_keys' = _chromatogram_keys

\* C12: a lookup by identifier or by index on the random-access reader gives
\* the outcome that the file, the tables and the request determine, wherever
\* earlier lookups, iterations and read() calls left the text view; and no
\* call on the constructed reader changes the tables or the key lists.
C12_LookupsIndependentOfHistory ==
  [](OutcomeIsFresh) /\ [][TablesKept]_vars

\* C12 happens: a lookup of an element that has its close tag runs after
\* read() left the text view at the end of the file.
C12_LookupAfterRead ==
  /\ pc = "extract"
  /\ file_handler.pos = Len(file)
  /\ ext.offset < Len(file)
  /\ MatchEndOf(Slice(file, ext.offset, Len(file))) # 0

\* C13: after construction the offsets of each table strictly increase along
\* the table's order, and each key list is the key sequence of its table;
\* stated here for the tables the rebuild scan leaves (asked for, or run
\* after the embedded index could not be read).
C13_TablesInDocumentOrder ==
  (Constructed /\ path \in {"scratch", "fallback"}) =>
    \A t \in Types :
      /\ \A i, j \in 1..Len(Table(t)) : i < j => Table(t)[i].off < Table(t)[j].off
      /\ KeyList(t) = [i \in 1..Len(Table(t)) |-> Table(t)[i].key]


\* C14: every handle the reader opened is closed when construction ends with an
\* error (and after close()).  Stated for the text view self.file_handler, that
\* __init__ opens before it builds the index: once the constructor has raised,
\* the text view is not open.
C14_HandlesClosedOnConstructionError ==
  pc = "failed" => ~file_handler.open


\* C15: when the reader was opened on a .gz path with extraction to a
\* temporary file, that file is no longer on disk once close() has returned.
C15_TempFileGoneAfterClose ==
  (pc = "closed" /\ temp_file.made) => ~temp_file.on_disk


\* The chain C16 prescribes for a compression accession c and a numeric type
\* t: the names of the calls after another.
Rejected ==
  { BYTE_SHUFFLED_ZSTD, DICTIONARY_ENCODED_ZSTD, TRUNCATION_LINEAR_PREDICTION_ZLIB,
    TRUNCATION_DELTA_PREDICTION_ZLIB }
Inflated ==
  { ZLIB_COMPRESSION, TRUNCATION_ZLIB, MS_NUMPRESS_LINEAR_PREDICTION_ZLIB,
    MS_NUMPRESS_POSITIVE_INTEGER_ZLIB, MS_NUMPRESS_SHORT_LOGGED_FLOAT_ZLIB }
Zstd ==
  { ZSTD_COMPRESSION, MS_NUMPRESS_LINEAR_PREDICTION_ZSTD, MS_NUMPRESS_POSITIVE_INTEGER_ZSTD,
    MS_NUMPRESS_SHORT_LOGGED_FLOAT_ZSTD }
Linear ==
  { MS_NUMPRESS_LINEAR_PREDICTION, MS_NUMPRESS_LINEAR_PREDICTION_ZLIB,
    MS_NUMPRESS_LINEAR_PREDICTION_ZSTD }
Pic ==
  { MS_NUMPRESS_POSITIVE_INTEGER, MS_NUMPRESS_POSITIVE_INTEGER_ZLIB,
    MS_NUMPRESS_POSITIVE_INTEGER_ZSTD }
Slof ==
  { MS_NUMPRESS_SHORT_LOGGED_FLOAT, MS_NUMPRESS_SHORT_LOGGED_FLOAT_ZLIB,
    MS_NUMPRESS_SHORT_LOGGED_FLOAT_ZSTD }
NumericTypes == {FLOAT_32, FLOAT_64, INT_32, INT_64}
DtypeOf(t) ==
  CASE t = FLOAT_32 -> "float32" [] t = FLOAT_64 -> "float64"
    [] t = INT_32 -> "int32" [] t = INT_64 -> "int64"
Prescribed(c, t) ==
  <<"base64.b64decode">>
  \o (IF c \in Inflated THEN <<"zlib.decompress">>
      ELSE IF c \in Zstd THEN <<"zstd.decompress">> ELSE <<>>)
  \o (IF c \in Linear THEN <<"pynumpress.decodeLinear">>
      ELSE IF c \in Pic THEN <<"pynumpress.decodePic">>
      ELSE IF c \in Slof THEN <<"pynumpress.decodeSlof">>
      ELSE <<"np.frombuffer", DtypeOf(t), "astype", "float64">>)

\* The calls a decoding made, with the dtype after each call that was given one.
Chain(steps) ==
  Flatten([i \in 1..Len(steps) |->
             IF steps[i].arg = "" THEN <<steps[i].f>> ELSE <<steps[i].f, steps[i].arg>>])

\* The declared accessions of one enumeration, and an array that declares at
\* most one of each (an mzML array declares exactly one).
Declared(a, enum) == {i \in 1..Len(a.cv_params) : a.cv_params[i] \in enum}
WellDeclared(a) ==
  /\ Cardinality(Declared(a, CompressionTypeAccessions)) <= 1
  /\ Cardinality(Declared(a, ToSet(BinaryDataTypeAccession))) <= 1
TheCompression(a) ==
  IF Declared(a, CompressionTypeAccessions) = {} THEN NO_COMPRESSION
  ELSE a.cv_params[CHOOSE i \in Declared(a, CompressionTypeAccessions) : TRUE]
TheType(a) ==
  IF Declared(a, ToSet(BinaryDataTypeAccession)) = {} THEN FLOAT_64
  ELSE a.cv_params[CHOOSE i \in Declared(a, ToSet(BinaryDataTypeAccession)) : TRUE]

\* C16: for a non-empty payload decode runs the chain prescribed for the
\* array's compression accession: base64, then zlib or zstd where the
\* accession names one, then either the numpress decoder the accession names
\* (the numeric type ignored) or the reinterpretation as the declared numeric
\* type widened to float64; the four rejected accessions raise
\* NotImplementedError; a missing compression accession counts as no
\* compression and a missing type as 64-bit float.  Stated for arrays that
\* declare at most one accession of each enumeration and, where the chain
\* reinterprets, one of the four numeric types.
C16_DecodeRunsThePrescribedChain ==
  ( /\ decoded # NoDecoded
    /\ array.nbytes > 0
    /\ WellDeclared(array)
    /\ TheType(array) \in NumericTypes
         \/ TheCompression(array) \in Linear \cup Pic \cup Slof \cup Rejected )
  => IF TheCompression(array) \in Rejected
     THEN decoded.kind = "NotImplementedError"
     ELSE /\ decoded.kind = "array"
          /\ Chain(decoded.steps) = Prescribed(TheCompression(array), TheType(array))

\* C16 happens: a zstd-packed numpress array that declares a 32-bit integer
\* type was decoded.
C16_NumpressZstdDecoded ==
  /\ decoded.kind = "array"
  /\ array.cv_params = <<INT_32, MS_NUMPRESS_LINEAR_PREDICTION_ZSTD>>
  /\ array.nbytes > 0

\* C17: an array whose <binary> child is missing, has no text, or whose text
\* decodes to zero bytes decodes to an empty float sequence with a warning
\* about the payload, whatever its compression accession; nothing is raised
\* and no decompression or numpress step runs.
C17_EmptyPayloadDecodesToEmpty ==
  ( /\ decoded # NoDecoded
    /\ ~array.binary \/ ~array.text \/ array.nbytes = 0 )
  => /\ decoded.kind = "empty"
     /\ ToSet(decoded.steps) \subseteq {b64decode}
     /\ decoded.warnings \cap {"Binary data array does not contain binary data.",
                               "Decoded binary data is empty."} # {}

\* C17 happens: an array of a rejected compression whose text decodes to
\* zero bytes was decoded.
C17_RejectedCompressionEmptyText ==
  /\ decoded # NoDecoded
  /\ compression(array) = BYTE_SHUFFLED_ZSTD
  /\ array.text
  /\ array.nbytes = 0


\* The start event of the document's mzML element.
TheMzml(events) ==
  events[CHOOSE i \in 1..Len(events) : events[i].event = "start" /\ events[i].tag = "mzML"]

\* C18: once the reader is constructed, reader.id is the id attribute of the
\* document's mzML element and reader.version its version attribute, or, when
\* that is absent, the first version of its schemaLocation; whether mzML is
\* the root element or sits in an indexedmzML wrapper.
C18_IdAndVersionOfTheDocument ==
  header.state = "built" =>
    /\ TheMzml(header.events).attrib.id # "None"
         => header._id = TheMzml(header.events).attrib.id
    /\ TheMzml(header.events).attrib.version # "None"
         => header._version = TheMzml(header.events).attrib.version
    /\ ( /\ TheMzml(header.events).attrib.version = "None"
         /\ MZML_VERSION_PATTERN(TheMzml(header.events).attrib.schemaLocation) # "None" )
         => header._version = MZML_VERSION_PATTERN(TheMzml(header.events).attrib.schemaLocation)

\* The first start event of a run element, 0 when there is none; and the end
\* events of dispatch-table elements before an event, in document order.
IsRunStart(e) == e.tag = "run" /\ e.event = "start"
RunStart(events) ==
  IF \E i \in 1..Len(events) : IsRunStart(events[i])
  THEN CHOOSE i \in 1..Len(events) :
         IsRunStart(events[i]) /\ \A j \in 1..(i - 1) : ~IsRunStart(events[j])
  ELSE 0
EndsBefore(events, k, tags) ==
  Flatten([i \in 1..(k - 1) |->
             IF events[i].event = "end" /\ events[i].tag \in tags THEN <<i>> ELSE <<>>])

\* C19: the header parser takes no event after the start event of run: it
\* records the run and returns; so the handlers ran for exactly the
\* dispatch-table elements that ended before run started, in document order,
\* and the lists hold what those elements gave.
C19_HeaderParseStopsAtRun ==
  RunStart(header.events) # 0 =>
    /\ header.pos <= RunStart(header.events)
    /\ header.state = "built" =>
         /\ header.pos = RunStart(header.events)
         /\ header._run = header.events[RunStart(header.events)].id
         /\ header.handled =
              EndsBefore(header.events, RunStart(header.events), {"cv", "fileDescription", "softwareList"})
         /\ header._cv_list =
              [i \in 1..Len(EndsBefore(header.events, RunStart(header.events), {"cv"})) |->
                 header.events[EndsBefore(header.events, RunStart(header.events), {"cv"})[i]].id]
         /\ Len(header._software_list) =
              Len(EndsBefore(header.events, RunStart(header.events), {"softwareList"}))

\* C19 happens: a header was built from a document in which a cv element
\* ends before run starts and another dispatch-table element ends after it.
C19_ElementsOnBothSidesOfRun ==
  /\ header.state = "built"
  /\ RunStart(header.events) # 0
  /\ header._cv_list # <<>>
  /\ \E i \in (RunStart(header.events) + 1)..Len(header.events) :
       header.events[i].event = "end" /\ header.events[i].tag \in {"cv", "softwareList"}


\* C20: len(reader.spectra) is the number of spectrum elements of the file and
\* len(reader.chromatograms) the number of chromatogram elements, zero
\* included.  Stated for well-formed documents without an embedded index and
\* without repeated ids.
C20_LenIsTheNumberOfElements ==
  (Constructed /\ PlainDocument(file)) =>
    \A t \in Types :
      __len__(t) =
        [raised |-> "",
         n |-> Cardinality({k \in 1..Len(ElementStarts(file)) : ElementStarts(file)[k].sec = t})]

\* The items of the file of one type in document order, sliced as a list is.
Expected(t, s) == ItemsOf(ListSlice(Items(t), s))

\* C21: for every slice s, spectra[s] (chromatograms[s]) is the list of all
\* items of the file in document order sliced by s, with the count known as
\* with the count unknown; stated here for well-formed documents without
\* index and with unique ids.
C21_SliceIsTheSlicedItemList ==
  (PlainDocument(file) /\ req.op = "slice") => res.plain = Expected(req.t, req.s)

\* C29: the k-th call of next() on one lookup object returns the k-th item of
\* the file in document order; stated here for well-formed documents that
\* hold at least k items of the type.
C29_KthNextIsKthItem ==
  ( /\ IterParse(file).ok
    /\ req.op = "next" /\ req.n <= Len(Items(req.t)) )
  => res.plain = Elem(Items(req.t)[req.n], req.t)

\* C22: the reader FileInterface holds is a function of its inputs: a BytesIO
\* argument or in_memory gives the in-memory reader (also for a .gz path);
\* otherwise a .gz path with extract_gzip gives the plain-file reader on a
\* temporary file; otherwise a .gz path gives the gzip streaming reader; any
\* other path gives the plain-file reader.  A temporary file is made in the
\* extract case and in no other.
C22_ReaderIsChosenByTheInputs ==
  mzml_interface # "none" =>
    LET buffer == file_object.path_or_file = "BytesIO" \/ file_object.in_memory
        gz == file_object.path_or_file = ".gz"
        extract == ~buffer /\ gz /\ file_object.extract_gzip
    IN  /\ buffer => mzml_interface = "BytesMzml"
        /\ extract => mzml_interface = "StandardMzml"
        /\ (~buffer /\ gz /\ ~file_object.extract_gzip) => mzml_interface = "StandardGzip"
        /\ (~buffer /\ ~gz) => mzml_interface = "StandardMzml"
        /\ temp_file.made <=> extract

\* C22 happens: a .gz path was opened with in_memory and extract_gzip both
\* set, and the reader was constructed.
C22_GzipPathReadInMemory ==
  /\ pc = "ready"
  /\ file_object = [path_or_file |-> ".gz", extract_gzip |-> TRUE, in_memory |-> TRUE]
  /\ mzml_interface = "BytesMzml"

\* C23: the whole-file scan records every spectrum and chromatogram start of
\* the file once, under its id and with its absolute offset, wherever the
\* chunk boundaries fall; stated here for the tables of a reader asked to
\* build its index from scratch on a well-formed document without index and
\* with unique ids.
C23_ScanFindsEveryElementStart ==
  (Constructed /\ path = "scratch" /\ PlainDocument(file)) =>
    /\ \A k \in 1..Len(ElementStarts(file)) :
         LET e == ElementStarts(file)[k]
         IN  Has(Table(e.sec), e.idRef) /\ Get(Table(e.sec), e.idRef) = e.off
    /\ Len(spectrum_offsets) + Len(chromatogram_offsets) = Len(ElementStarts(file))

\* The <offset> entries between the position the footer names and the first
\* </indexList> after it, in order, each with the name of the <index> header
\* most recently seen before it.
EntriesRead(f) ==
  LET from == FindIndexOffset(f)
      ends == {i \in (from + 1)..Len(f) : f[i].k = "endIndexList"}
      stop == IF ends = {} THEN Len(f) + 1 ELSE CHOOSE i \in ends : \A x \in ends : i <= x
      offs == {i \in (from + 1)..(stop - 1) :
                 f[i].k = "offset" /\ \E h \in (from + 1)..i : f[h].k = "index"}
      Nth(k) == CHOOSE i \in offs : Cardinality({x \in offs : x < i}) = k - 1
      SecOf(i) == f[CHOOSE h \in (from + 1)..i : f[h].k = "index"
                                                  /\ \A m \in (h + 1)..i : f[m].k # "index"].t
  IN  [k \in 1..Cardinality(offs) |->
         [sec |-> SecOf(Nth(k)), idRef |-> f[Nth(k)].id, off |-> f[Nth(k)].n]]

OfSection(entries, t) ==
  LET In(e) == e.sec = t
      sel == SelectSeq(entries, In)
  IN  [k \in 1..Len(sel) |-> [key |-> sel[k].idRef, off |-> sel[k].off]]

\* C24: when the embedded index was read, each table holds, in their order,
\* the <offset> entries between the indexListOffset position and the first
\* </indexList> that stand under an <index> header of its name, and nothing
\* else, however entries, headers and closing tag lie on lines.
C24_TablesHoldTheEntriesRead ==
  (Constructed /\ path = "embedded") =>
    \A t \in Types : Table(t) = OfSection(EntriesRead(file), t)

\* C25: for an element that starts at a table offset, the end the extractor
\* computes is the end of the first close tag of the element's own type after
\* the offset, whichever other close tags lie in what it reads; stated here
\* for offsets at which an element of the table's type starts and after
\* which the extractor finds an end within MaxIter passes.
C25_EndIsTheOwnCloseTag ==
  Constructed =>
    \A t \in Types : \A i \in 1..Len(Table(t)) :
      LET offset == Table(t)[i].off
          own == CloseEnd(Slice(file, offset, Len(file)), t)
          m == _read_to_spec_end(offset, Max(offset, Min(Len(file), offset + chunk_size)), 0)
      IN  ( /\ offset >= 0 /\ offset < Len(file)
            /\ file[offset + 1].k = "open" /\ file[offset + 1].t = t
            /\ own # 0 /\ m # 0 )
          => m = own

\* C26: what a lookup hands to the XML parser is the file content from the
\* start offset up to and including the last byte of the matched close tag,
\* also when the element holds characters of more than one byte: the text
\* view, moved to the offset, has read to the end of the close tag and no
\* further.  Stated for lookups by identifier.
C26_ReadEndsAtTheCloseTag ==
  ( /\ req.op = "id" /\ pc = "ready"
    /\ res.plain.kind \notin {"none", "running", "KeyError"} )
  => LET offset == Get(Table(req.t), AskedKey)
     IN  file_handler.pos =
           offset + _read_to_spec_end(offset, Max(offset, Min(Len(file), offset + chunk_size)), 0)

\* The accession of an enumeration that comes first among the cvParams of an
\* array in document order, or None.
FirstDeclared(a, enum) ==
  IF Declared(a, enum) = {} THEN "None"
  ELSE a.cv_params[CHOOSE i \in Declared(a, enum) : \A j \in Declared(a, enum) : i <= j]

\* C27: the compression, the numeric type and the array type selected for a
\* binary data array are each the accession of their enumeration that comes
\* first among the array's cvParams in document order.
C27_FirstInDocumentOrderWins ==
  decoded # NoDecoded =>
    /\ compression(array) = FirstDeclared(array, CompressionTypeAccessions)
    /\ encoding(array) = FirstDeclared(array, ToSet(BinaryDataTypeAccession))
    /\ binary_array_type(array) = FirstDeclared(array, ToSet(BinaryDataArrayAccession))

\* C28: whenever, after construction, the number of entries of a table
\* differs from the count the file's list element declares, the truncation
\* warning was emitted, on the embedded-index path as on the rebuild path,
\* and construction succeeded.
C28_CountMismatchIsWarned ==
  ( /\ path \in {"embedded", "scratch", "fallback"}
    /\ \/ Len(spectrum_offsets) # declared.speccnt
       \/ Len(chromatogram_offsets) # declared.chromcnt )
  => (pc = "ready" /\ TruncationWarning \in stdout)

\* C30: when the read of the embedded index failed and the fallback scan ran,
\* the tables and the key lists are those the scan alone gives on the file:
\* nothing of the failed read is left in them.
C30_FallbackTablesAreTheScansAlone ==
  (Constructed /\ path = "fallback") =>
    LET alone == BuildIndexFromScratch(file, [spec |-> <<>>, chrom |-> <<>>])
    IN  /\ spectrum_offsets = alone.spec
        /\ chromatogram_offsets = alone.chrom
        /\ _spectrum_keys = alone.skeys
        /\ _chromatogram_keys = alone.ckeys

====
